---- MODULE Spec2Model ----
(***************************************************************************)
(* Model of project-nexus (src/main.go): a logrus logger writing JSON      *)
(* records to one file, a gorilla/mux router with two routes, and the two  *)
(* handlers prh_GET_Home and prh_POST_Home served by net/http, one         *)
(* goroutine per request.                                                  *)
(*                                                                         *)
(* Strings that the program inspects or converts (request paths, the       *)
(* echoed parameter, JSON text, the timestamp) are sequences of one-       *)
(* character strings.  Process 0 is main; processes 1..MaxReqs are the     *)
(* goroutines net/http starts for the requests it accepts.                 *)
(***************************************************************************)
EXTENDS Integers, Sequences, FiniteSets, TLC

\* ------------------------------------------------------------------ bounds
MaxReqs == 2          \* requests accepted during one run of the process
MaxPathLen == 2       \* characters after the leading "/" of a request path
MaxClock == 2         \* largest wall-clock reading (seconds)
MaxAdjust == 1        \* times the wall clock is set backwards

\* --------------------------------------------------------- program constants
\* logrus severities (logrus.Level): smaller is more severe.
Level == [PanicLevel |-> 0, FatalLevel |-> 1, ErrorLevel |-> 2,
          WarnLevel |-> 3, InfoLevel |-> 4, DebugLevel |-> 5, TraceLevel |-> 6]

Methods == {"GET", "POST", "DELETE"}
PathChars == {"/", "a", ".", "&"}

Slots == 1..MaxReqs
Procs == 0..MaxReqs

RECURSIVE SeqsUpTo(_, _)
SeqsUpTo(S, n) ==
    IF n = 0 THEN {<<>>}
    ELSE LET shorter == SeqsUpTo(S, n - 1)
         IN shorter \cup {Append(s, c) : s \in shorter, c \in S}

\* Request paths in origin form: "/" followed by up to n characters.
Paths(n) == {<<"/">> \o s : s \in SeqsUpTo(PathChars, n)}

\* The path segment the i-th concurrent client sends: i written in binary
\* with "a" for 0 and "&" for 1, so that no two clients send the same one.
RECURSIVE ClientParam(_)
ClientParam(i) ==
    IF i = 0 THEN <<>>
    ELSE Append(ClientParam(i \div 2), IF i % 2 = 1 THEN "&" ELSE "a")

\* ------------------------------------------------- gorilla/mux: cleanPath
RECURSIVE SplitPath(_)
SplitPath(s) ==
    IF s = <<>> THEN << <<>> >>
    ELSE LET rest == SplitPath(Tail(s))
         IN IF Head(s) = "/" THEN << <<>> >> \o rest
            ELSE << <<Head(s)>> \o Head(rest) >> \o Tail(rest)

\* path.Clean on a rooted path: empty and "." elements are dropped, ".."
\* removes the element before it (and is dropped at the root).
RECURSIVE CleanSegs(_, _)
CleanSegs(segs, stack) ==
    IF segs = <<>> THEN stack
    ELSE LET s == Head(segs)
         IN IF s = <<>> \/ s = <<".">> THEN CleanSegs(Tail(segs), stack)
            ELSE IF s = <<".", ".">>
                 THEN CleanSegs(Tail(segs),
                                IF stack = <<>> THEN stack
                                ELSE SubSeq(stack, 1, Len(stack) - 1))
                 ELSE CleanSegs(Tail(segs), Append(stack, s))

RECURSIVE JoinSegs(_)
JoinSegs(stack) ==
    IF stack = <<>> THEN <<>>
    ELSE <<"/">> \o Head(stack) \o JoinSegs(Tail(stack))

PathClean(p) ==
    LET joined == JoinSegs(CleanSegs(SplitPath(p), <<>>))
    IN IF joined = <<>> THEN <<"/">> ELSE joined

\* mux.cleanPath: path.Clean, but a trailing slash is kept.
cleanPath(p) ==
    LET np == PathClean(p)
    IN IF p[Len(p)] = "/" /\ np # <<"/">> THEN Append(np, "/") ELSE np

\* ------------------------------------------------ gorilla/mux: route table
\* r.HandleFunc("/", prh_GET_Home).Methods("GET")
\* r.HandleFunc("/{rootParam}", prh_POST_Home).Methods("POST")
RouteTable ==
    << [tpl |-> "/", method |-> "GET", handler |-> "prh_GET_Home"],
       [tpl |-> "/{rootParam}", method |-> "POST", handler |-> "prh_POST_Home"] >>

\* The template "/" compiles to ^/$ and "/{rootParam}" to ^/([^/]+)$.
PathMatches(tpl, p) ==
    IF tpl = "/" THEN p = <<"/">>
    ELSE /\ Len(p) >= 2
         /\ p[1] = "/"
         /\ \A k \in 2..Len(p) : p[k] # "/"

\* A capture group that starts one character early, at the slash.
PathVarsWithSlash(tpl, p) ==
    IF tpl = "/" THEN [has |-> FALSE, rootParam |-> <<>>]
    ELSE [has |-> TRUE, rootParam |-> p]

\* The variables the path matcher captures: rootParam, or none.
PathVars(tpl, p) ==
    IF tpl = "/" THEN [has |-> FALSE, rootParam |-> <<>>]
    ELSE [has |-> TRUE, rootParam |-> Tail(p)]

NoVars == [has |-> FALSE, rootParam |-> <<>>]

\* A router that forgets a method mismatch: no match is always "not found".
RECURSIVE RouterMatchForgetful(_, _, _, _)
RouterMatchForgetful(rs, method, p, mismatch) ==
    IF rs = <<>>
    THEN [handler |-> "notFound", vars |-> [has |-> FALSE, rootParam |-> <<>>]]
    ELSE LET r == Head(rs)
         IN IF PathMatches(r.tpl, p) /\ r.method = method
            THEN [handler |-> r.handler, vars |-> PathVars(r.tpl, p)]
            ELSE RouterMatchForgetful(Tail(rs), method, p, mismatch)

\* Router.Match over the routes in registration order (Route.Match inlined):
\* a route whose path matches but whose method does not leaves
\* ErrMethodMismatch behind, which a later full match clears.
RECURSIVE RouterMatch(_, _, _, _)
RouterMatch(rs, method, p, mismatch) ==
    IF rs = <<>>
    THEN [handler |-> IF mismatch THEN "methodNotAllowed" ELSE "notFound",
          vars |-> NoVars]
    ELSE LET r == Head(rs)
         IN IF ~PathMatches(r.tpl, p)
            THEN RouterMatch(Tail(rs), method, p, mismatch)
            ELSE IF r.method # method
                 THEN RouterMatch(Tail(rs), method, p, TRUE)
                 ELSE [handler |-> r.handler, vars |-> PathVars(r.tpl, p)]

\* Router.ServeHTTP: a path that is not clean is redirected before matching.
Dispatch(rs, method, p) ==
    IF cleanPath(p) # p
    THEN [handler |-> "redirect", vars |-> NoVars]
    ELSE RouterMatch(rs, method, p, FALSE)

\* ------------------------------------------------------------ encoding/json
\* Encoder.Encode escapes the HTML characters of a string; of the characters
\* modelled that is "&", written as the six characters \u0026.
RECURSIVE JsonEscape(_)
JsonEscape(s) ==
    IF s = <<>> THEN <<>>
    ELSE (IF Head(s) = "&" THEN <<"\\", "u", "0", "0", "2", "6">>
          ELSE <<Head(s)>>) \o JsonEscape(Tail(s))

\* What a JSON parser reads back from the text of a string.
RECURSIVE JsonUnescape(_)
JsonUnescape(s) ==
    IF s = <<>> THEN <<>>
    ELSE IF Len(s) >= 6 /\ SubSeq(s, 1, 6) = <<"\\", "u", "0", "0", "2", "6">>
         THEN <<"&">> \o JsonUnescape(SubSeq(s, 7, Len(s)))
         ELSE <<Head(s)>> \o JsonUnescape(Tail(s))

\* --------------------------------------------------------------------- time
Digits == <<"0", "1", "2", "3", "4", "5", "6", "7", "8", "9">>

\* time.Time.String() of a UTC time, reduced to its two-digit seconds field.
TimeString(t) == << Digits[(t \div 10) + 1], Digits[(t % 10) + 1] >>

DigitValue(c) == CHOOSE d \in 0..9 : Digits[d + 1] = c

ParseTime(s) == DigitValue(s[1]) * 10 + DigitValue(s[2])

\* -------------------------------------------------------------------- state
VARIABLES
    debugMode,   \* DEBUG_MODE: true in main.go; fixed per build, drawn in Init
    pc,          \* where main (0) and each request goroutine stand
    exited,      \* os.Exit has run
    out,         \* logrus: the logger's output, "stderr" until SetOutput
    formatter,   \* logrus: "text" until SetFormatter
    level,       \* logrus: the logger's level
    mu,          \* logrus: holder of the logger's mutex, or NoHolder
    writing,     \* goroutines inside Out.Write
    file,        \* the log file: the chunks written, in order
    stderr,      \* records written to standard error
    issued,      \* log calls that have returned
    routes,      \* the mux router's routes, in registration order
    listening,   \* ListenAndServe has bound the port
    reqs,        \* per request: the request, the handler's locals, the response
    wall,        \* the wall clock (seconds)
    epoch        \* times the wall clock has been set backwards

vars == <<debugMode, pc, exited, out, formatter, level, mu, writing, file,
          stderr, issued, routes, listening, reqs, wall, epoch>>

logVars == <<out, formatter, level, mu, writing, file, stderr, issued>>
clockVars == <<wall, epoch>>

NoHolder == 0 - 1

Conds == {"none", "notModified", "range"}
FileStates == {"ok", "missing", "denied", "ioerror"}

EmptyResponse == [Message |-> <<>>, Parameter |-> <<>>, Timestamp |-> <<>>]
EmptyBody == [msg |-> <<>>, param |-> <<>>, time |-> <<>>]

IdleReq ==
    [method |-> "", path |-> <<>>, cond |-> "none", handler |-> "",
     vars |-> NoVars, ctype |-> "", status |-> 0, body |-> EmptyBody,
     fstate |-> "", resp |-> EmptyResponse, encodeFailed |-> FALSE,
     epoch |-> 0]

Init ==
    /\ debugMode \in BOOLEAN
    /\ pc = [p \in Procs |-> IF p = 0 THEN "initLogger" ELSE "idle"]
    /\ exited = FALSE
    /\ out = "stderr"
    /\ formatter = "text"
    /\ level = Level.InfoLevel
    /\ mu = NoHolder
    /\ writing = {}
    /\ file = <<>>
    /\ stderr = <<>>
    /\ issued = {}
    /\ routes = <<>>
    /\ listening = FALSE
    /\ reqs = [i \in Slots |-> IdleReq]
    /\ wall = 0
    /\ epoch = 0

\* ------------------------------------------------------------------- logrus
\* The log calls of main.go, by the pc that stands at them.
LogSites ==
    {"initLogger_log", "prelimSetup_log", "initRouter_log", "initWebServer_log",
     "nowServing_log", "listen_fatal", "get_log", "post_log", "post_debug",
     "post_fatal"}

\* Infoln and Println log at Info, Debug at Debug, Fatalln at Fatal.
SiteLevel(site) ==
    CASE site \in {"listen_fatal", "post_fatal"} -> Level.FatalLevel
      [] site = "post_debug" -> Level.DebugLevel
      [] OTHER -> Level.InfoLevel

\* The statement that follows each log call.
SiteNext(site) ==
    CASE site = "initLogger_log" -> "prelimSetup_log"
      [] site = "prelimSetup_log" -> "initRouter_log"
      [] site = "initRouter_log" -> "initRouter"
      [] site = "initWebServer_log" -> "nowServing_log"
      [] site = "nowServing_log" -> "listen"
      [] site = "listen_fatal" -> "main_exit"
      [] site = "get_log" -> "get_serve"
      [] site = "post_log" -> "post_build"
      [] site = "post_debug" -> "post_encode"
      [] site = "post_fatal" -> "post_exit"

\* if DEBUG_MODE { log.SetLevel(log.DebugLevel) } else { log.SetLevel(log.ErrorLevel) }
SetLevelInfoAlways(debug) == IF debug THEN Level.DebugLevel ELSE Level.InfoLevel
SetLevelFor(debug) == IF debug THEN Level.DebugLevel ELSE Level.ErrorLevel

\* Logger.IsLevelEnabled
IsLevelEnabled(l) == level >= l

\* Logger.mu: Entry.write holds it around Format and Out.Write.
MutexIgnored(p) == TRUE
MutexFree(p) == mu = NoHolder

Chunk(p, part) ==
    [proc |-> p, site |-> pc[p], lvl |-> SiteLevel(pc[p]), fmt |-> formatter,
     part |-> part]

Record(p) == [proc |-> p, site |-> pc[p], lvl |-> SiteLevel(pc[p])]

\* A log call at an enabled level takes the mutex and starts Out.Write; the
\* write of one record may take more than one write to the descriptor.
LogStart(p) ==
    /\ ~exited
    /\ pc[p] \in LogSites
    /\ p \notin writing
    /\ IsLevelEnabled(SiteLevel(pc[p]))
    /\ MutexFree(p)
    /\ mu' = p
    /\ writing' = writing \cup {p}
    /\ file' = Append(file, Chunk(p, 1))
    /\ UNCHANGED <<debugMode, pc, exited, out, formatter, level, stderr, issued,
                   routes, listening, reqs, wall, epoch>>

\* Out.Write completes, the mutex is released and the log call returns.
LogFinish(p) ==
    /\ ~exited
    /\ p \in writing
    /\ file' = Append(file, Chunk(p, 2))
    /\ writing' = writing \ {p}
    /\ mu' = NoHolder
    /\ issued' = issued \cup {Record(p)}
    /\ pc' = [pc EXCEPT ![p] = SiteNext(pc[p])]
    /\ UNCHANGED <<debugMode, exited, out, formatter, level, stderr, routes,
                   listening, reqs, wall, epoch>>

\* A log call below the logger's level returns without writing.
LogSkip(p) ==
    /\ ~exited
    /\ pc[p] \in LogSites
    /\ p \notin writing
    /\ ~IsLevelEnabled(SiteLevel(pc[p]))
    /\ issued' = issued \cup {Record(p)}
    /\ pc' = [pc EXCEPT ![p] = SiteNext(pc[p])]
    /\ UNCHANGED <<debugMode, exited, out, formatter, level, mu, writing, file,
                   stderr, routes, listening, reqs, wall, epoch>>

\* logrus Fatal*: after the record is written, logger.Exit(1) -> os.Exit(1).
ExitReturns(p) ==
    /\ ~exited
    /\ pc[p] \in {"main_exit", "post_exit"}
    /\ pc' = [pc EXCEPT ![p] = "done"]
    /\ UNCHANGED <<debugMode, exited, logVars, routes, listening, reqs, wall, epoch>>

Exit(p) ==
    /\ ~exited
    /\ pc[p] \in {"main_exit", "post_exit"}
    /\ exited' = TRUE
    /\ UNCHANGED <<debugMode, pc, logVars, routes, listening, reqs, wall, epoch>>

\* --------------------------------------------------------------------- main
\* initLogger: os.OpenFile succeeds; SetOutput, SetFormatter, SetLevel.
InitLoggerOpened ==
    /\ ~exited
    /\ pc[0] = "initLogger"
    /\ out' = "file"
    /\ formatter' = "json"
    /\ level' = SetLevelFor(debugMode)
    /\ pc' = [pc EXCEPT ![0] = "initLogger_log"]
    /\ UNCHANGED <<debugMode, exited, mu, writing, file, stderr, issued, routes,
                   listening, reqs, wall, epoch>>

\* initLogger: os.OpenFile fails; log.Fatal(err) writes to the logger's output
\* of that moment, standard error, and exits.
OpenFailureIgnored ==
    /\ ~exited
    /\ pc[0] = "initLogger"
    /\ stderr' = Append(stderr, [proc |-> 0, site |-> "initLogger_fatal",
                                 lvl |-> Level.FatalLevel])
    /\ pc' = [pc EXCEPT ![0] = "initLogger_log"]
    /\ UNCHANGED <<debugMode, exited, out, formatter, level, mu, writing, file,
                   issued, routes, listening, reqs, wall, epoch>>

InitLoggerOpenFails ==
    /\ ~exited
    /\ pc[0] = "initLogger"
    /\ stderr' = Append(stderr, [proc |-> 0, site |-> "initLogger_fatal",
                                 lvl |-> Level.FatalLevel])
    /\ exited' = TRUE
    /\ UNCHANGED <<debugMode, pc, out, formatter, level, mu, writing, file,
                   issued, routes, listening, reqs, wall, epoch>>

\* initRouter: mux.NewRouter and the two HandleFunc registrations.
InitRouter ==
    /\ ~exited
    /\ pc[0] = "initRouter"
    /\ routes' = RouteTable
    /\ pc' = [pc EXCEPT ![0] = "initWebServer_log"]
    /\ UNCHANGED <<debugMode, exited, logVars, listening, reqs, wall, epoch>>

\* http.ListenAndServe binds SERVER_PORT and enters the accept loop.
ListenAndServe ==
    /\ ~exited
    /\ pc[0] = "listen"
    /\ listening' = TRUE
    /\ pc' = [pc EXCEPT ![0] = "serving"]
    /\ UNCHANGED <<debugMode, exited, logVars, routes, reqs, wall, epoch>>

\* http.ListenAndServe returns its error: the port cannot be bound, or the
\* accept loop fails later.
ListenAndServeReturns ==
    /\ ~exited
    /\ pc[0] \in {"listen", "serving"}
    /\ listening' = FALSE
    /\ pc' = [pc EXCEPT ![0] = "listen_fatal"]
    /\ UNCHANGED <<debugMode, exited, logVars, routes, reqs, wall, epoch>>

\* ----------------------------------------------------------------- net/http
FirstIdle(i) == pc[i] = "idle" /\ \A j \in Slots : j < i => pc[j] # "idle"

InFlight == {i \in Slots : pc[i] \notin {"idle", "done"}}

\* The server accepts a request and runs Router.ServeHTTP in a new goroutine.
\* Handlers that mux itself supplies (redirect, 404, 405) answer at once.
Accept(i, m, p, c) ==
    LET d == Dispatch(routes, m, p)
        req == [IdleReq EXCEPT !.method = m, !.path = p, !.cond = c,
                               !.handler = d.handler, !.vars = d.vars]
    IN /\ ~exited
       /\ pc[0] = "serving"
       /\ FirstIdle(i)
       /\ CASE d.handler = "redirect" ->
                 /\ reqs' = [reqs EXCEPT ![i] = [req EXCEPT !.status = 301]]
                 /\ pc' = [pc EXCEPT ![i] = "done"]
            [] d.handler = "notFound" ->
                 /\ reqs' = [reqs EXCEPT ![i] =
                               [req EXCEPT !.status = 404,
                                           !.ctype = "text/plain; charset=utf-8"]]
                 /\ pc' = [pc EXCEPT ![i] = "done"]
            [] d.handler = "methodNotAllowed" ->
                 /\ reqs' = [reqs EXCEPT ![i] = [req EXCEPT !.status = 405]]
                 /\ pc' = [pc EXCEPT ![i] = "done"]
            [] d.handler = "prh_GET_Home" ->
                 /\ reqs' = [reqs EXCEPT ![i] = req]
                 /\ pc' = [pc EXCEPT ![i] = "get_log"]
            [] d.handler = "prh_POST_Home" ->
                 /\ reqs' = [reqs EXCEPT ![i] = req]
                 /\ pc' = [pc EXCEPT ![i] = "post_log"]
       /\ UNCHANGED <<debugMode, exited, logVars, routes, listening, wall, epoch>>

\* The conditional and Range headers a request may carry matter to GET / only.
CondsOf(m, p) == IF m = "GET" /\ p = <<"/">> THEN Conds ELSE {"none"}

\* Requests arriving while others may be in flight.
Arrive ==
    \E i \in Slots, m \in Methods :
        \E p \in {<<"/">>, <<"/">> \o ClientParam(i)} : Accept(i, m, p, "none")

\* One request, with any method and any path up to MaxPathLen.
ArriveAny ==
    \E m \in Methods, p \in Paths(MaxPathLen) :
        \E c \in CondsOf(m, p) : Accept(1, m, p, c)

\* POST /{rootParam} requests handled one after another.
ArrivePost ==
    /\ InFlight = {}
    /\ \E i \in Slots : Accept(i, "POST", <<"/">> \o ClientParam(i), "none")

\* ------------------------------------------------------------- prh_GET_Home
\* A file server that commits to 200 before it has opened the file.
ServeFileEager(fstate, cond, ctype) == [status |-> 200, ctype |-> ctype]

\* http.ServeFile: what it answers, by the state of the file and the
\* request's conditional headers.  An error reply (http.Error) replaces the
\* Content-Type; a 304 reply removes it.
ServeFileResult(fstate, cond, ctype) ==
    CASE fstate = "missing" -> [status |-> 404, ctype |-> "text/plain; charset=utf-8"]
      [] fstate = "denied" -> [status |-> 403, ctype |-> "text/plain; charset=utf-8"]
      [] fstate = "ioerror" -> [status |-> 500, ctype |-> "text/plain; charset=utf-8"]
      [] fstate = "ok" /\ cond = "notModified" -> [status |-> 304, ctype |-> ""]
      [] fstate = "ok" /\ cond = "range" -> [status |-> 206, ctype |-> ctype]
      [] OTHER -> [status |-> 200, ctype |-> ctype]

\* A handler that would treat a failed ServeFile as fatal.
GetServeFatal(i) ==
    /\ ~exited
    /\ pc[i] = "get_serve"
    /\ \E f \in FileStates :
          LET r == ServeFileResult(f, reqs[i].cond, "text/html; charset=utf-8")
          IN /\ reqs' = [reqs EXCEPT ![i].fstate = f, ![i].status = r.status,
                                     ![i].ctype = r.ctype]
             /\ exited' = (f # "ok")
    /\ pc' = [pc EXCEPT ![i] = "done"]
    /\ UNCHANGED <<debugMode, logVars, routes, listening, wall, epoch>>

\* w.Header().Set("Content-Type", ...); http.ServeFile(w, r, PATH_TO_HOME_HTML)
GetServe(i) ==
    /\ ~exited
    /\ pc[i] = "get_serve"
    /\ \E f \in FileStates :
          LET r == ServeFileResult(f, reqs[i].cond, "text/html; charset=utf-8")
          IN reqs' = [reqs EXCEPT ![i].fstate = f, ![i].status = r.status,
                                  ![i].ctype = r.ctype]
    /\ pc' = [pc EXCEPT ![i] = "done"]
    /\ UNCHANGED <<debugMode, exited, logVars, routes, listening, wall, epoch>>

\* ------------------------------------------------------------ prh_POST_Home
\* A router that kept the variables of the latest request in one shared place.
VarsOfLatest(i) ==
    LET routed == {j \in Slots : reqs[j].vars.has}
    IN reqs[CHOOSE j \in routed : \A k \in routed : k <= j].vars.rootParam

\* mux.Vars(r)["rootParam"]: read from the context of the handler's own request.
Vars(i) == reqs[i].vars.rootParam

\* A clock read that runs a second ahead for the first request.
NowSkewed(i) == IF i = 1 THEN wall + 1 ELSE wall

\* time.Now().UTC(): the wall clock; UTC() drops the monotonic reading.
Now(i) == wall

\* Content-Type header, mux.Vars, and the response struct.
PostBuild(i) ==
    /\ ~exited
    /\ pc[i] = "post_build"
    /\ reqs' = [reqs EXCEPT
                  ![i].ctype = "application/json",
                  ![i].resp = [Message |-> <<"Hey, you found an API Easter Egg!">>,
                               Parameter |-> Vars(i),
                               Timestamp |-> TimeString(Now(i))],
                  ![i].epoch = epoch]
    /\ pc' = [pc EXCEPT ![i] = "post_debug"]
    /\ UNCHANGED <<debugMode, exited, logVars, routes, listening, wall, epoch>>

\* json.NewEncoder(w).Encode(response) succeeds: the response is sent.
PostEncode(i) ==
    /\ ~exited
    /\ pc[i] = "post_encode"
    /\ reqs' = [reqs EXCEPT
                  ![i].status = 200,
                  ![i].body = [msg |-> JsonEscape(reqs[i].resp.Message),
                               param |-> JsonEscape(reqs[i].resp.Parameter),
                               time |-> JsonEscape(reqs[i].resp.Timestamp)]]
    /\ pc' = [pc EXCEPT ![i] = "done"]
    /\ UNCHANGED <<debugMode, exited, logVars, routes, listening, wall, epoch>>

\* Encode returns an error (the write to the connection failed): Fatalln.
PostEncodeFails(i) ==
    /\ ~exited
    /\ pc[i] = "post_encode"
    /\ reqs' = [reqs EXCEPT ![i].encodeFailed = TRUE]
    /\ pc' = [pc EXCEPT ![i] = "post_fatal"]
    /\ UNCHANGED <<debugMode, exited, logVars, routes, listening, wall, epoch>>

\* --------------------------------------------------------------- wall clock
Tick ==
    /\ ~exited
    /\ pc[0] = "serving"
    /\ wall < MaxClock
    /\ wall' = wall + 1
    /\ UNCHANGED <<debugMode, pc, exited, logVars, routes, listening, reqs, epoch>>

\* The system clock is stepped backwards (an NTP step, an operator).
SetBack ==
    /\ ~exited
    /\ pc[0] = "serving"
    /\ epoch < MaxAdjust
    /\ \E t \in 0..(wall - 1) : wall' = t
    /\ epoch' = epoch + 1
    /\ UNCHANGED <<debugMode, pc, exited, logVars, routes, listening, reqs>>

\* ------------------------------------------------------------ specifications
MainStep ==
    \/ InitLoggerOpened
    \/ InitLoggerOpenFails
    \/ InitRouter
    \/ ListenAndServe
    \/ ListenAndServeReturns

LogStep == \E p \in Procs : LogStart(p) \/ LogFinish(p) \/ LogSkip(p) \/ Exit(p)

GetStep == \E i \in Slots : GetServe(i)

PostStep == \E i \in Slots : PostBuild(i) \/ PostEncode(i) \/ PostEncodeFails(i)

\* The server under concurrent requests.  The wall clock stands still here;
\* it moves in ClockSpec, where the timestamps are what is checked.
Next == MainStep \/ LogStep \/ Arrive \/ GetStep \/ PostStep

Spec == Init /\ [][Next]_vars

\* One request of any method and path.
NextRoute == MainStep \/ LogStep \/ ArriveAny \/ GetStep \/ PostStep

RouteSpec == Init /\ [][NextRoute]_vars

\* POST requests one after another, under a moving wall clock.
NextClock == MainStep \/ LogStep \/ ArrivePost \/ PostStep \/ Tick \/ SetBack

ClockSpec == Init /\ [][NextClock]_vars

\* ================================================================== claims
Range(s) == {s[k] : k \in 1..Len(s)}

Segment(i) == Tail(reqs[i].path)

\* A path of exactly one segment after the leading slash (possibly empty).
OneSegment(p) == \A k \in 2..Len(p) : p[k] # "/"

IsPost(i) == pc[i] # "idle" /\ reqs[i].method = "POST"

EchoAnswered(i) ==
    /\ pc[i] = "done"
    /\ reqs[i].handler = "prh_POST_Home"
    /\ reqs[i].status = 200

SentParam(i) == JsonUnescape(reqs[i].body.param)
SentTime(i) == ParseTime(JsonUnescape(reqs[i].body.time))

\* ---------------------------------------------------------------------- C1
\* C1 as written: every POST /p with p one path segment, the empty segment
\* included, is dispatched to prh_POST_Home, and its response has status 200
\* and a body whose param field reads back as p.
C1_EchoAnySegment ==
    \A i \in Slots :
        (IsPost(i) /\ OneSegment(reqs[i].path)) =>
            /\ reqs[i].handler = "prh_POST_Home"
            /\ pc[i] = "done" =>
                  /\ reqs[i].status = 200
                  /\ SentParam(i) = Segment(i)

\* C1, amended: the same for every p that is not empty and is not one of the
\* dot segments "." and ".."; the response also declares application/json.
C1_EchoSegment ==
    \A i \in Slots :
        (/\ IsPost(i)
         /\ OneSegment(reqs[i].path)
         /\ Segment(i) \notin {<<>>, <<".">>, <<".", ".">>}) =>
            /\ reqs[i].handler = "prh_POST_Home"
            /\ pc[i] = "done" =>
                  /\ reqs[i].status = 200
                  /\ reqs[i].ctype = "application/json"
                  /\ SentParam(i) = Segment(i)

\* A POST whose segment holds a character that JSON escapes has been echoed.
C1_Witness ==
    \E i \in Slots :
        /\ EchoAnswered(i)
        /\ "&" \in Range(Segment(i))
        /\ SentParam(i) = Segment(i)

\* ---------------------------------------------------------------------- C2
Registered(m, p) ==
    \/ m = "GET" /\ p = <<"/">>
    \/ m = "POST" /\ Len(p) >= 2 /\ OneSegment(p)

\* Some registered pattern matches the path, whatever the method.
KnownPath(p) == p = <<"/">> \/ (Len(p) >= 2 /\ OneSegment(p))

\* The path has no empty segment before its end and no dot segment.
Canonical(p) ==
    /\ \A k \in 1..(Len(p) - 1) : ~(p[k] = "/" /\ p[k + 1] = "/")
    /\ \A s \in Range(SplitPath(p)) : s \notin {<<".">>, <<".", ".">>}

\* C2 as written: every request that is not GET / or POST /{rootParam} is
\* answered 404, DELETE / among them.
C2_UnmatchedIs404 ==
    \A i \in Slots :
        (pc[i] = "done" /\ ~Registered(reqs[i].method, reqs[i].path)) =>
            reqs[i].status = 404

\* C2, amended: such a request is answered 301 when its path is not in
\* canonical form, else 405 when its path matches a registered pattern under
\* another method (DELETE /), else 404; a registered request gets none of the
\* three, but for the 404 of GET / when the file is missing.
C2_UnmatchedStatus ==
    \A i \in Slots :
        pc[i] = "done" =>
            LET m == reqs[i].method
                p == reqs[i].path
            IN /\ reqs[i].status = 301 <=> ~Canonical(p)
               /\ reqs[i].status = 405 <=>
                     (Canonical(p) /\ KnownPath(p) /\ ~Registered(m, p))
               /\ reqs[i].status = 404 <=>
                     \/ Canonical(p) /\ ~KnownPath(p)
                     \/ Registered(m, p) /\ reqs[i].fstate = "missing"

\* DELETE / has been answered, with 405.
C2_Witness ==
    \E i \in Slots :
        /\ pc[i] = "done"
        /\ reqs[i].method = "DELETE"
        /\ reqs[i].path = <<"/">>
        /\ reqs[i].status = 405

\* ---------------------------------------------------------------------- C3
PastBuild == {"post_debug", "post_encode", "post_fatal", "post_exit", "done"}

\* C3: under every interleaving, the response struct a POST handler has built
\* and the body it has sent carry the segment of its own request, and so
\* differ from the segment of every other POST request.
C3_NoCrossTalk ==
    \A i \in Slots :
        (reqs[i].handler = "prh_POST_Home" /\ pc[i] \in PastBuild) =>
            /\ reqs[i].resp.Parameter = Segment(i)
            /\ EchoAnswered(i) => SentParam(i) = Segment(i)
            /\ \A j \in Slots \ {i} :
                  reqs[j].handler = "prh_POST_Home" =>
                      reqs[i].resp.Parameter # Segment(j)

\* A later POST has been answered while an earlier one is still in its handler.
C3_Witness ==
    \E i, j \in Slots :
        /\ j < i
        /\ EchoAnswered(i)
        /\ reqs[j].handler = "prh_POST_Home"
        /\ pc[j] \in {"post_build", "post_debug", "post_encode"}

\* ---------------------------------------------------------------------- C4
OpenFailed == stderr # <<>>

C5_EncodeFailureIsFatal ==
    /\ [](\A i \in Slots :
             reqs[i].encodeFailed =>
                 /\ pc[i] \in {"post_fatal", "post_exit"}
                 /\ reqs[i].status = 0)
    /\ [][exited => UNCHANGED <<pc, reqs, file>>]_vars
    /\ [][\A i \in Slots : pc[i] = "post_exit" => pc'[i] = "post_exit"]_vars

\* An Encode failure has ended the process while another request was in flight.
C5_Witness ==
    \E i, j \in Slots :
        /\ reqs[i].encodeFailed
        /\ pc[i] = "post_exit"
        /\ exited
        /\ pc[j] \notin {"idle", "done", "post_exit", "post_fatal"}

\* ---------------------------------------------------------------------- C6
GetFailed(i) ==
    /\ pc[i] = "done"
    /\ reqs[i].handler = "prh_GET_Home"
    /\ reqs[i].fstate \in {"missing", "denied", "ioerror"}

\* C6: the step that answers GET / for a missing or unreadable file gives an
\* HTTP error status and leaves the process and its listener as they were;
\* the process only ever exits through log.Fatal in initLogger, after
\* ListenAndServe returned, or after a failed Encode.
C6_GetErrorNotFatal ==
    /\ [][\A i \in Slots :
             (pc[i] = "get_serve" /\ pc'[i] = "done" /\ reqs'[i].fstate # "ok") =>
                 /\ reqs'[i].status \in {403, 404, 500}
                 /\ ~exited'
                 /\ pc'[0] = pc[0]
                 /\ listening' = listening]_vars
    /\ [](exited =>
             \/ OpenFailed
             \/ pc[0] = "main_exit"
             \/ \E i \in Slots : pc[i] = "post_exit" /\ reqs[i].encodeFailed)

\* After a failed GET / the server still listens and has answered a request
\* that arrived later.
C6_Witness ==
    \E i, j \in Slots :
        /\ i < j
        /\ GetFailed(i)
        /\ reqs[i].status = 404
        /\ EchoAnswered(j)
        /\ ~exited
        /\ pc[0] = "serving"
        /\ listening

\* ---------------------------------------------------------------------- C7
\* C7 as written: of two POST requests handled one after the other, the later
\* response's time field is not below the earlier one's.
C7_TimeMonotonic ==
    \A i, j \in Slots :
        (i < j /\ EchoAnswered(i) /\ EchoAnswered(j)) => SentTime(i) <= SentTime(j)

\* C7, amended: that holds whenever the wall clock was not set backwards
\* between the two handlers' readings of it.
C7_TimeMonotonicUnlessSetBack ==
    \A i, j \in Slots :
        (/\ i < j
         /\ EchoAnswered(i)
         /\ EchoAnswered(j)
         /\ reqs[i].epoch = reqs[j].epoch) => SentTime(i) <= SentTime(j)

\* Two answers in a row, the clock having advanced between them.
C7_Witness ==
    \E i, j \in Slots :
        /\ i < j
        /\ EchoAnswered(i)
        /\ EchoAnswered(j)
        /\ reqs[i].epoch = reqs[j].epoch
        /\ SentTime(i) < SentTime(j)

\* ---------------------------------------------------------------------- C8
GetAnswered(i) == pc[i] = "done" /\ reqs[i].handler = "prh_GET_Home"

\* C8 as written: GET / answers 200 with text/html; charset=utf-8 when the
\* file exists and a status other than 200 when it does not.
C8_GetHome ==
    \A i \in Slots :
        GetAnswered(i) =>
            /\ reqs[i].fstate = "ok" =>
                  /\ reqs[i].status = 200
                  /\ reqs[i].ctype = "text/html; charset=utf-8"
            /\ reqs[i].fstate # "ok" => reqs[i].status # 200

\* C8, amended: the first half holds for a GET / that carries no conditional
\* and no Range header.
C8_GetHomeUnconditional ==
    \A i \in Slots :
        GetAnswered(i) =>
            /\ (reqs[i].fstate = "ok" /\ reqs[i].cond = "none") =>
                  /\ reqs[i].status = 200
                  /\ reqs[i].ctype = "text/html; charset=utf-8"
            /\ reqs[i].fstate # "ok" => reqs[i].status # 200

\* GET / has been answered from a missing file.
C8_Witness ==
    \E i \in Slots :
        /\ GetAnswered(i)
        /\ reqs[i].fstate = "missing"
        /\ reqs[i].status = 404

\* ---------------------------------------------------------------------- C9
\* C9: the log file is a sequence of whole records: the first chunk of a
\* record is followed at once by the second chunk of the same record, unless
\* it is the last chunk of the file and its writer is still inside the write;
\* every record was formatted as JSON; at most one goroutine is writing.
C9_LogRecordsWhole ==
    /\ Cardinality(writing) <= 1
    /\ \A k \in 1..Len(file) :
          /\ file[k].fmt = "json"
          /\ file[k].part = 1 =>
                IF k = Len(file) THEN file[k].proc \in writing
                ELSE file[k + 1] = [file[k] EXCEPT !.part = 2]
          /\ file[k].part = 2 =>
                (k > 1 /\ file[k - 1] = [file[k] EXCEPT !.part = 1])

\* One handler is inside the write while another stands at a log call whose
\* record is due to be written.
C9_Witness ==
    \E p, q \in Slots :
        /\ p # q
        /\ p \in writing
        /\ q \notin writing
        /\ pc[q] \in LogSites
        /\ IsLevelEnabled(SiteLevel(pc[q]))
        /\ ~exited

\* --------------------------------------------------------------------- C10
InFile(r) ==
    \E k \in 1..Len(file) :
        file[k].proc = r.proc /\ file[k].site = r.site /\ file[k].part = 2

\* C10: once initLogger has configured the logger, its level is Debug when
\* the debug flag is set and Error when it is not; a log call that has
\* returned left its record in the file exactly when its severity is at or
\* above that level; with the flag unset the file holds no Info or Debug
\* record.
C10_LevelFilter ==
    out = "file" =>
        LET threshold == IF debugMode THEN Level.DebugLevel ELSE Level.ErrorLevel
        IN /\ level = threshold
           /\ \A r \in issued : InFile(r) <=> r.lvl <= threshold
           /\ \A k \in 1..Len(file) : file[k].lvl <= threshold
           /\ ~debugMode =>
                 \A k \in 1..Len(file) :
                     file[k].lvl \notin {Level.InfoLevel, Level.DebugLevel}

\* With the flag unset a handler's Debug call has returned and a Fatal record
\* has reached the file.
C10_Witness ==
    /\ ~debugMode
    /\ \E r \in issued : r.proc \in Slots /\ r.lvl = Level.DebugLevel
    /\ \E k \in 1..Len(file) : file[k].lvl = Level.FatalLevel /\ file[k].part = 2

====
